---- MODULE Spec2Model ----
(***************************************************************************)
(* Model of the X-Kore bridge in src/src/lib.rs: the shared NetworkState,  *)
(* the two capture hooks (hooked_send, hooked_recv) and the manager loop   *)
(* kore_connection_main, together with the parts of the environment they   *)
(* talk to (the agent endpoint, the control connection, the real server).  *)
(*                                                                         *)
(* Every block of the code that holds the NETWORK_STATE mutex is one       *)
(* atomic action.  The one block that can hold the mutex for an unbounded  *)
(* time, the read of the control socket, is split: pc = "reading" means    *)
(* the manager is blocked in client.read() with the mutex held.            *)
(***************************************************************************)
EXTENDS Integers, Sequences, FiniteSets

\* ---------------------------------------------------------------- constants
XKORE_SERVER_PORT == 2350
BUF_SIZE == 4096
RECONNECT_INTERVAL == 3000
PING_INTERVAL == 5000
SLEEP_TIME == 10
SOCKET_ERROR == -1
\* The largest value of `buffer.len() as u16`.
U16_MAX == 65535

\* Tag bytes b'R', b'S', b'K' and a tag the code does not know (b'X').
TagR == 82
TagS == 83
TagK == 75
TagX == 88

\* ------------------------------------------------------------------- bounds
\* Number of hook calls the application makes.
MaxAppCalls == 2
\* Number of frames the agent sends.
MaxAgentFrames == 1
\* Bytes the agent accepts on the control channel before it stops reading.
MaxTx == 8
\* How long a sleep or a blocked read lasts when it lasts long (ms).
LongSleep == 2000
\* Number of frames the agent writes back to back.
MaxBurst == 2

VARIABLES
    \* struct NetworkState
    kore_client, ro_server, kore_alive, send_buf, xkore_send_buf,
    \* locals of kore_connection_main
    pc, last_ping, last_connect_attempt, read_result, buf, data_to_send,
    ping_needed,
    \* the application thread inside a hook
    app_pc, app_arg, app_buffer, hook_ret, app_calls,
    \* environment: agent endpoint, control connection, real server
    agent_up, link, kore_rx, kore_tx, ro_tx,
    \* history: what hooked_send queued, what the agent sent, what the reads of
    \* the control socket returned, whether an I/O call on the current control
    \* socket has failed, the bytes of the last write_all that failed
    submitted, agent_frames, rx_read, io_failed, failed_write

vars == << kore_client, ro_server, kore_alive, send_buf, xkore_send_buf,
           pc, last_ping, last_connect_attempt, read_result, buf, data_to_send,
           ping_needed, app_pc, app_arg, app_buffer, hook_ret, app_calls,
           agent_up, link, kore_rx, kore_tx, ro_tx, submitted, agent_frames,
           rx_read, io_failed, failed_write >>

netVars == << kore_client, ro_server, kore_alive, send_buf, xkore_send_buf >>
mgrVars == << pc, last_ping, last_connect_attempt, read_result, buf,
              data_to_send, ping_needed >>
appVars == << app_pc, app_arg, app_buffer, hook_ret, app_calls >>
envVars == << agent_up, link, kore_rx, kore_tx, ro_tx >>
histVars == << submitted, agent_frames, rx_read, io_failed, failed_write >>

\* ------------------------------------------------------------------ helpers
Min(a, b) == IF a < b THEN a ELSE b

Drop(s, n) == SubSeq(s, n + 1, Len(s))

Take(s, n) == SubSeq(s, 1, n)

\* Instant::elapsed() of a timer after d more milliseconds.  The loop only
\* compares a timer with its interval, so the value is kept up to `cap`.
Elapse(t, d, cap) == Min(t + d, cap)

PingCap == PING_INTERVAL + 2 * SLEEP_TIME
ConnectCap == RECONNECT_INTERVAL + 2 * SLEEP_TIME

\* kore_tx holds one byte stream per control connection, in the order the
\* connections were opened: what the agent received on each.
RECURSIVE Flatten(_)
Flatten(ss) == IF ss = << >> THEN << >> ELSE Head(ss) \o Flatten(Tail(ss))

TxLen == Len(Flatten(kore_tx))

\* A new connection starts a new stream (an untouched one is reused).
TxOpen(tx) ==
    IF tx = << >> \/ tx[Len(tx)] # << >> THEN Append(tx, << >>) ELSE tx

\* Bytes written to the current connection.
TxWrite(tx, bytes) == [ tx EXCEPT ![Len(tx)] = @ \o bytes ]

\* (buffer.len() as u16).to_le_bytes()
LenBytes(n) == << (n % 65536) % 256, (n % 65536) \div 256 >>

\* The frame send_data_to_kore builds: tag, 2-byte length, payload.
NewBuf(tag, buffer) == << tag >> \o LenBytes(Len(buffer)) \o buffer

\* SendDataToKore with the bug of queueing whatever kore_alive is.
SendDataToKoreAlways(alive, queue, buffer, tag) ==
    queue \o NewBuf(tag, buffer)

\* send_data_to_kore: the new value of xkore_send_buf.
SendDataToKore(alive, queue, buffer, tag) ==
    IF alive THEN queue \o NewBuf(tag, buffer) ELSE queue

\* ProcessSendBuf with the bug of taking every tag as 'R'.
ProcessSendBufAnyTag(data, sb) ==
    IF Len(data) < 3 THEN sb
    ELSE sb \o Drop(data, 3)

\* process_packet: the new values of send_buf and of the real server's input.
ProcessSendBuf(data, sb) ==
    IF Len(data) < 3 THEN sb
    ELSE IF data[1] = TagR THEN sb \o Drop(data, 3)
    ELSE sb

ProcessRoTx(data, server, tx) ==
    IF Len(data) < 3 THEN tx
    ELSE IF data[1] = TagS /\ server # "None" THEN tx \o Drop(data, 3)
    ELSE tx

\* ---------------------------------------------------------------- the inputs
\* Buffers the application passes to send().
SendData == { << 1 >>, << 2, 3 >> }
\* Results of the real recv(): an error, an orderly close, or data.
RecvResults == { << SOCKET_ERROR, << >> >>, << 0, << >> >>, << 1, << 7 >> >> }
\* Frames the agent sends: << tag, payload >>.
AgentFrames == { << TagR, << 5 >> >>, << TagS, << 6 >> >>, << TagK, << >> >>,
                 << TagX, << 5 >> >> }

\* --------------------------------------------------------------------- Init
Init ==
    /\ kore_client = "None"
    /\ ro_server = "None"
    /\ kore_alive = FALSE
    /\ send_buf = << >>
    /\ xkore_send_buf = << >>
    /\ pc = "connect"
    /\ last_ping = 0
    /\ last_connect_attempt = 0
    /\ read_result = 0
    /\ buf = << >>
    /\ data_to_send = << >>
    /\ ping_needed = FALSE
    /\ app_pc = "idle"
    /\ app_arg = << >>
    /\ app_buffer = << >>
    /\ hook_ret = 0
    /\ app_calls = 0
    /\ agent_up \in BOOLEAN
    /\ link = "none"
    /\ kore_rx = << >>
    /\ kore_tx = << >>
    /\ ro_tx = << >>
    /\ submitted = << >>
    /\ agent_frames = << >>
    /\ rx_read = << >>
    /\ io_failed = FALSE
    /\ failed_write = << >>

\* ------------------------------------------------ kore_connection_main loop
\* while *keep_running.lock().unwrap(): the flag is created true and no code
\* ever stores false in it.
keep_running == TRUE

ConnectDue == ~kore_alive \/ last_connect_attempt > RECONNECT_INTERVAL

\* MgrConnectOk with the bug of not storing the stream in kore_client.
MgrConnectOkNoClient ==
    /\ pc = "connect" /\ keep_running
    /\ ConnectDue
    /\ agent_up
    /\ kore_alive' = TRUE
    /\ last_connect_attempt' = 0
    /\ link' = "up"
    /\ kore_rx' = << >>
    /\ kore_tx' = TxOpen(kore_tx)
    /\ io_failed' = FALSE
    /\ pc' = "read"
    /\ UNCHANGED << kore_client, ro_server, send_buf, xkore_send_buf, last_ping,
                    read_result, buf, data_to_send, ping_needed, agent_up,
                    ro_tx >>
    /\ UNCHANGED << appVars, submitted, agent_frames, rx_read, failed_write >>

\* lines 118-128, TcpStream::connect succeeded.
MgrConnectOk ==
    /\ pc = "connect" /\ keep_running
    /\ ConnectDue
    /\ agent_up
    /\ kore_client' = "Some"
    /\ kore_alive' = TRUE
    /\ last_connect_attempt' = 0
    /\ link' = "up"
    /\ kore_rx' = << >>
    /\ kore_tx' = TxOpen(kore_tx)
    /\ io_failed' = FALSE
    /\ pc' = "read"
    /\ UNCHANGED << ro_server, send_buf, xkore_send_buf, last_ping, read_result,
                    buf, data_to_send, ping_needed, agent_up, ro_tx >>
    /\ UNCHANGED << appVars, submitted, agent_frames, rx_read, failed_write >>

\* lines 118-128, TcpStream::connect failed.
MgrConnectFail ==
    /\ pc = "connect" /\ keep_running
    /\ ConnectDue
    /\ ~agent_up
    /\ last_connect_attempt' = 0
    /\ pc' = "read"
    /\ UNCHANGED << netVars, last_ping, read_result, buf, data_to_send,
                    ping_needed, appVars, envVars, histVars >>

\* lines 118-128, no connect attempted.
MgrConnectSkip ==
    /\ pc = "connect" /\ keep_running
    /\ ~ConnectDue
    /\ pc' = "read"
    /\ UNCHANGED << netVars, last_ping, last_connect_attempt, read_result, buf,
                    data_to_send, ping_needed, appVars, envVars, histVars >>

\* lines 139-142: no client, sleep (d >= SLEEP_TIME ms) and continue.
MgrReadNone(d) ==
    /\ pc = "read"
    /\ kore_client = "None"
    /\ last_ping' = Elapse(last_ping, d, PingCap)
    /\ last_connect_attempt' = Elapse(last_connect_attempt, d, ConnectCap)
    /\ pc' = "connect"
    /\ UNCHANGED << netVars, read_result, buf, data_to_send, ping_needed,
                    appVars, envVars, histVars >>

\* line 138: client.read(&mut buf) finds nothing to read and blocks, with the
\* mutex held.
MgrReadBlock ==
    /\ pc = "read"
    /\ kore_client = "Some"
    /\ link = "up" /\ kore_rx = << >>
    /\ pc' = "reading"
    /\ UNCHANGED << netVars, last_ping, last_connect_attempt, read_result, buf,
                    data_to_send, ping_needed, appVars, envVars, histVars >>

\* line 138: d ms pass while the read stays blocked.
MgrReadWait(d) ==
    /\ pc = "reading"
    /\ link = "up" /\ kore_rx = << >>
    /\ last_ping' = Elapse(last_ping, d, PingCap)
    /\ last_connect_attempt' = Elapse(last_connect_attempt, d, ConnectCap)
    /\ UNCHANGED << netVars, pc, read_result, buf, data_to_send, ping_needed,
                    appVars, envVars, histVars >>

\* line 138: the read returns Ok(n), n > 0: the first n bytes in flight.
MgrReadData(n) ==
    /\ pc \in { "read", "reading" }
    /\ kore_client = "Some"
    /\ n \in 1 .. Min(Len(kore_rx), BUF_SIZE)
    /\ buf' = Take(kore_rx, n)
    /\ read_result' = n
    /\ kore_rx' = Drop(kore_rx, n)
    /\ rx_read' = rx_read \o Take(kore_rx, n)
    /\ pc' = "process"
    /\ UNCHANGED << netVars, last_ping, last_connect_attempt, data_to_send,
                    ping_needed, appVars, agent_up, link, kore_tx, ro_tx,
                    submitted, agent_frames, io_failed, failed_write >>

\* line 138: the agent closed the connection: Ok(0), or Err (r = SOCKET_ERROR).
MgrReadEof(r) ==
    /\ pc \in { "read", "reading" }
    /\ kore_client = "Some"
    /\ link = "closed" /\ kore_rx = << >>
    /\ r \in { 0, SOCKET_ERROR }
    /\ read_result' = r
    /\ buf' = << >>
    /\ io_failed' = (io_failed \/ r = SOCKET_ERROR)
    /\ pc' = "process"
    /\ UNCHANGED << netVars, last_ping, last_connect_attempt, data_to_send,
                    ping_needed, appVars, envVars, submitted, agent_frames,
                    rx_read, failed_write >>

\* lines 147-152: process_packet(&buf[..n]) when the read returned Ok(n), n > 0.
MgrProcess ==
    /\ pc = "process"
    /\ send_buf' = IF read_result > 0 THEN ProcessSendBuf(buf, send_buf)
                   ELSE send_buf
    /\ ro_tx' = IF read_result > 0 THEN ProcessRoTx(buf, ro_server, ro_tx)
                ELSE ro_tx
    /\ read_result' = 0
    /\ buf' = << >>
    /\ pc' = "prepare"
    /\ UNCHANGED << kore_client, ro_server, kore_alive, xkore_send_buf,
                    last_ping, last_connect_attempt, data_to_send, ping_needed,
                    appVars, agent_up, link, kore_rx, kore_tx, histVars >>

\* lines 155-161: copy the queue, decide whether a ping is due.
MgrPrepare ==
    /\ pc = "prepare"
    /\ data_to_send' = xkore_send_buf
    /\ ping_needed' = (kore_alive /\ last_ping > PING_INTERVAL)
    /\ pc' = "send"
    /\ UNCHANGED << netVars, last_ping, last_connect_attempt, read_result, buf,
                    appVars, envVars, histVars >>

\* lines 164-171: nothing was copied.
MgrSendSkip ==
    /\ pc = "send"
    /\ data_to_send = << >> \/ kore_client = "None"
    /\ data_to_send' = << >>
    /\ pc' = "ping"
    /\ UNCHANGED << netVars, last_ping, last_connect_attempt, read_result, buf,
                    ping_needed, appVars, envVars, histVars >>

\* lines 164-171: write_all succeeded, the queue is cleared.
MgrSendOk ==
    /\ pc = "send"
    /\ data_to_send # << >> /\ kore_client = "Some"
    /\ link = "up"
    /\ TxLen + Len(data_to_send) <= MaxTx
    /\ kore_tx' = TxWrite(kore_tx, data_to_send)
    /\ xkore_send_buf' = << >>
    /\ data_to_send' = << >>
    /\ failed_write' = << >>
    /\ pc' = "ping"
    /\ UNCHANGED << kore_client, ro_server, kore_alive, send_buf, last_ping,
                    last_connect_attempt, read_result, buf, ping_needed,
                    appVars, agent_up, link, kore_rx, ro_tx, submitted,
                    agent_frames, rx_read, io_failed >>

\* MgrSendFail with the bug of clearing the queue whatever write_all returned.
MgrSendFailClears(k) ==
    /\ pc = "send"
    /\ data_to_send # << >> /\ kore_client = "Some"
    /\ \/ link = "closed" /\ k = 0
       \/ link = "up" /\ k \in 0 .. Len(data_to_send) - 1
    /\ TxLen + k <= MaxTx
    /\ kore_tx' = TxWrite(kore_tx, Take(data_to_send, k))
    /\ link' = "closed"
    /\ xkore_send_buf' = << >>
    /\ data_to_send' = << >>
    /\ io_failed' = TRUE
    /\ failed_write' = data_to_send
    /\ pc' = "ping"
    /\ UNCHANGED << kore_client, ro_server, kore_alive, send_buf, last_ping,
                    last_connect_attempt, read_result, buf, ping_needed,
                    appVars, agent_up, kore_rx, ro_tx, submitted,
                    agent_frames, rx_read >>

\* lines 164-171: write_all failed after k bytes went out; the queue is kept.
MgrSendFail(k) ==
    /\ pc = "send"
    /\ data_to_send # << >> /\ kore_client = "Some"
    /\ \/ link = "closed" /\ k = 0
       \/ link = "up" /\ k \in 0 .. Len(data_to_send) - 1
    /\ TxLen + k <= MaxTx
    /\ kore_tx' = TxWrite(kore_tx, Take(data_to_send, k))
    /\ link' = "closed"
    /\ data_to_send' = << >>
    /\ io_failed' = TRUE
    /\ failed_write' = data_to_send
    /\ pc' = "ping"
    /\ UNCHANGED << netVars, last_ping, last_connect_attempt, read_result, buf,
                    ping_needed, appVars, agent_up, kore_rx, ro_tx, submitted,
                    agent_frames, rx_read >>

\* lines 174-182: no ping due.
MgrPingSkip ==
    /\ pc = "ping"
    /\ ~ping_needed \/ kore_client = "None"
    /\ ping_needed' = FALSE
    /\ pc' = "sleep"
    /\ UNCHANGED << netVars, last_ping, last_connect_attempt, read_result, buf,
                    data_to_send, appVars, envVars, histVars >>

\* lines 174-182: the ping [b'K', 0, 0] was written.
MgrPingOk ==
    /\ pc = "ping"
    /\ ping_needed /\ kore_client = "Some"
    /\ link = "up"
    /\ TxLen + 3 <= MaxTx
    /\ kore_tx' = TxWrite(kore_tx, << TagK, 0, 0 >>)
    /\ last_ping' = 0
    /\ ping_needed' = FALSE
    /\ pc' = "sleep"
    /\ UNCHANGED << netVars, last_connect_attempt, read_result, buf,
                    data_to_send, appVars, agent_up, link, kore_rx, ro_tx,
                    histVars >>

\* lines 174-182: the ping could not be written.
MgrPingFail ==
    /\ pc = "ping"
    /\ ping_needed /\ kore_client = "Some"
    /\ link = "closed"
    /\ ping_needed' = FALSE
    /\ io_failed' = TRUE
    /\ pc' = "sleep"
    /\ UNCHANGED << netVars, last_ping, last_connect_attempt, read_result, buf,
                    data_to_send, appVars, envVars, submitted, agent_frames,
                    rx_read, failed_write >>

\* line 184: thread::sleep, d >= SLEEP_TIME ms.
MgrSleep(d) ==
    /\ pc = "sleep"
    /\ last_ping' = Elapse(last_ping, d, PingCap)
    /\ last_connect_attempt' = Elapse(last_connect_attempt, d, ConnectCap)
    /\ pc' = "connect"
    /\ UNCHANGED << netVars, read_result, buf, data_to_send, ping_needed,
                    appVars, envVars, histVars >>

\* ------------------------------------------------------------------ the hooks
\* The mutex is free unless the manager is blocked in its read.
LockFree == pc # "reading"

\* hooked_send, lines 70-76 and 90-92: the zero-length orig_send; r is its
\* result (0 or SOCKET_ERROR).  The call returns r unless it goes on to lock.
HookedSendCall(data, r) ==
    /\ app_pc = "idle"
    /\ app_calls < MaxAppCalls
    /\ r \in { 0, SOCKET_ERROR }
    /\ app_calls' = app_calls + 1
    /\ app_arg' = data
    /\ IF r # SOCKET_ERROR /\ Len(data) > 0
       THEN /\ app_pc' = "send_lock"
            /\ UNCHANGED hook_ret
       ELSE /\ app_pc' = "send_ret"
            /\ hook_ret' = r
    /\ UNCHANGED << app_buffer, netVars, mgrVars, envVars, histVars >>

\* hooked_send, lines 77-81: connected, the bytes are queued for the agent.
HookedSendQueue ==
    /\ app_pc = "send_lock"
    /\ LockFree
    /\ kore_alive
    /\ xkore_send_buf' = SendDataToKore(kore_alive, xkore_send_buf, app_arg, TagS)
    /\ submitted' = Append(submitted, app_arg)
    /\ hook_ret' = Len(app_arg)
    /\ app_pc' = "send_ret"
    /\ UNCHANGED << kore_client, ro_server, kore_alive, send_buf, mgrVars,
                    app_arg, app_buffer, app_calls, envVars, agent_frames,
                    rx_read, io_failed, failed_write >>

\* hooked_send, lines 82-89: not connected, orig_send with the real length;
\* r is its result (the length or SOCKET_ERROR).
HookedSendDirect(r) ==
    /\ app_pc = "send_lock"
    /\ LockFree
    /\ ~kore_alive
    /\ r \in { Len(app_arg), SOCKET_ERROR }
    /\ ro_tx' = IF r = SOCKET_ERROR THEN ro_tx ELSE ro_tx \o app_arg
    /\ hook_ret' = r
    /\ app_pc' = "send_ret"
    /\ UNCHANGED << netVars, mgrVars, app_arg, app_buffer, app_calls, agent_up,
                    link, kore_rx, kore_tx, histVars >>

\* hooked_recv, lines 51-57 and 63: the real recv; res = << ret_len, bytes >>.
HookedRecvCall(res) ==
    /\ app_pc = "idle"
    /\ app_calls < MaxAppCalls
    /\ res \in RecvResults
    /\ app_calls' = app_calls + 1
    /\ app_buffer' = res[2]
    /\ IF res[1] # SOCKET_ERROR /\ res[1] > 0
       THEN /\ app_pc' = "recv_lock"
            /\ UNCHANGED hook_ret
       ELSE /\ app_pc' = "recv_ret"
            /\ hook_ret' = res[1]
    /\ UNCHANGED << app_arg, netVars, mgrVars, envVars, histVars >>

\* HookedRecvLocked with the bug of framing the received bytes as sent ones.
HookedRecvLockedAsSent ==
    /\ app_pc = "recv_lock"
    /\ LockFree
    /\ xkore_send_buf' =
           SendDataToKore(kore_alive, xkore_send_buf, app_buffer, TagS)
    /\ hook_ret' = Len(app_buffer)
    /\ app_pc' = "recv_ret"
    /\ UNCHANGED << kore_client, ro_server, kore_alive, send_buf, mgrVars,
                    app_arg, app_buffer, app_calls, envVars, histVars >>

\* hooked_recv, lines 58-63: send_data_to_kore(.., Received), return ret_len.
HookedRecvLocked ==
    /\ app_pc = "recv_lock"
    /\ LockFree
    /\ xkore_send_buf' =
           SendDataToKore(kore_alive, xkore_send_buf, app_buffer, TagR)
    /\ hook_ret' = Len(app_buffer)
    /\ app_pc' = "recv_ret"
    /\ UNCHANGED << kore_client, ro_server, kore_alive, send_buf, mgrVars,
                    app_arg, app_buffer, app_calls, envVars, histVars >>

\* The hook has returned; the application takes the result and its buffer.
HookedReturn ==
    /\ app_pc \in { "send_ret", "recv_ret" }
    /\ app_pc' = "idle"
    /\ app_arg' = << >>
    /\ app_buffer' = << >>
    /\ hook_ret' = 0
    /\ UNCHANGED << app_calls, netVars, mgrVars, envVars, histVars >>

\* ------------------------------------------------------------------ the agent
\* The agent starts listening on 127.0.0.1:XKORE_SERVER_PORT.
AgentStart ==
    /\ ~agent_up
    /\ agent_up' = TRUE
    /\ UNCHANGED << netVars, mgrVars, appVars, link, kore_rx, kore_tx, ro_tx,
                    histVars >>

\* The agent goes away: it stops listening and closes its connection.
AgentStop ==
    /\ agent_up
    /\ agent_up' = FALSE
    /\ link' = IF link = "up" THEN "closed" ELSE link
    /\ UNCHANGED << netVars, mgrVars, appVars, kore_rx, kore_tx, ro_tx,
                    histVars >>

\* The agent writes one frame to the control connection.
AgentSend(f) ==
    /\ link = "up"
    /\ Len(agent_frames) < MaxAgentFrames
    /\ kore_rx' = kore_rx \o NewBuf(f[1], f[2])
    /\ agent_frames' = Append(agent_frames, f)
    /\ UNCHANGED << netVars, mgrVars, appVars, agent_up, link, kore_tx, ro_tx,
                    submitted, rx_read, io_failed, failed_write >>

\* ------------------------------------------------------------ specifications
\* One step of the manager loop, but for a read that returns data; d is how
\* long a sleep or a blocked read lasts.
MgrStep(d) ==
    \/ MgrConnectOk
    \/ MgrConnectFail
    \/ MgrConnectSkip
    \/ MgrReadNone(d)
    \/ MgrReadBlock
    \/ MgrReadWait(d)
    \/ \E r \in { 0, SOCKET_ERROR } : MgrReadEof(r)
    \/ MgrProcess
    \/ MgrPrepare
    \/ MgrSendSkip
    \/ MgrSendOk
    \/ \E k \in { 0, 1 } : MgrSendFail(k)
    \/ MgrPingSkip
    \/ MgrPingOk
    \/ MgrPingFail
    \/ MgrSleep(d)

\* The application sends.
AppSend ==
    \/ \E data \in SendData, r \in { 0, SOCKET_ERROR } : HookedSendCall(data, r)
    \/ HookedSendQueue
    \/ \E r \in { 1, 2, SOCKET_ERROR } : HookedSendDirect(r)
    \/ HookedReturn

\* The application receives.
AppRecv ==
    \/ \E res \in RecvResults : HookedRecvCall(res)
    \/ HookedRecvLocked
    \/ HookedReturn

\* A keep-alive frame from the agent.
KeepAlive == << TagK, << >> >>

\* A frame from the agent whose tag process_packet does not know.
UnknownFrame == << TagX, << 5 >> >>

\* The outbound path: the application's sends, the manager, and an agent that
\* comes and goes and sends keep-alives.  Sleeps and blocked reads last long,
\* a read returns all that has arrived.
Next ==
    \/ MgrStep(LongSleep)
    \/ MgrReadData(Len(kore_rx))
    \/ AppSend
    \/ AgentStart
    \/ AgentStop
    \/ AgentSend(KeepAlive)

Spec == Init /\ [][Next]_vars

\* The inbound path: an agent that sends frames of every kind and goes away,
\* the manager, and the application's receive calls.  A read returns one byte
\* or all that has arrived.
NextIn ==
    \/ MgrStep(LongSleep)
    \/ \E n \in { 1, Len(kore_rx) } : MgrReadData(n)
    \/ AppRecv
    \/ AgentStop
    \/ \E f \in AgentFrames : AgentSend(f)

SpecIn == Init /\ [][NextIn]_vars

\* The timers: every sleep lasts exactly SLEEP_TIME, a blocked read is looked
\* at every SLEEP_TIME; the agent answers with keep-alives and stays.
NextTime ==
    \/ MgrConnectOk
    \/ MgrConnectFail
    \/ MgrConnectSkip
    \/ MgrReadNone(SLEEP_TIME)
    \/ MgrReadBlock
    \/ MgrReadWait(SLEEP_TIME)
    \/ \E n \in { 1, Len(kore_rx) } : MgrReadData(n)
    \/ MgrProcess
    \/ MgrPrepare
    \/ MgrSendSkip
    \/ MgrPingSkip
    \/ MgrPingOk
    \/ MgrSleep(SLEEP_TIME)
    \/ AgentStart
    \/ AgentSend(KeepAlive)

SpecTime == Init /\ [][NextTime]_vars

\* ------------------------------------------------- the wire format (spec 4.1)
\* decode: the complete frames << tag, payload >> at the front of a byte
\* stream, each delimited by its 2-byte little-endian length.
RECURSIVE Frames(_)
Frames(b) ==
    IF Len(b) < 3 THEN << >>
    ELSE LET n == b[2] + 256 * b[3]
         IN  IF Len(b) < 3 + n THEN << >>
             ELSE << << b[1], SubSeq(b, 4, 3 + n) >> >> \o Frames(Drop(b, 3 + n))

\* The frames of every stream of a list of streams, in order.
RECURSIVE StreamFrames(_)
StreamFrames(ss) ==
    IF ss = << >> THEN << >> ELSE Frames(Head(ss)) \o StreamFrames(Tail(ss))

\* The payloads of the frames of one tag, in order.
PayloadsOf(fs, tag) ==
    LET sel == SelectSeq(fs, LAMBDA f : f[1] = tag)
    IN  [ i \in 1 .. Len(sel) |-> sel[i][2] ]

IsPrefix(a, b) == Len(a) <= Len(b) /\ Take(b, Len(a)) = a

\* The bytes of a list of frames on the wire.
RECURSIVE Wire(_)
Wire(fs) ==
    IF fs = << >> THEN << >>
    ELSE NewBuf(Head(fs)[1], Head(fs)[2]) \o Wire(Tail(fs))

\* ------------------------------------------------------ frames sent together
\* The agent writes several frames back to back, before the manager reads.
AgentBurst(fs) ==
    /\ link = "up"
    /\ agent_frames = << >>
    /\ kore_rx' = kore_rx \o Wire(fs)
    /\ agent_frames' = fs
    /\ UNCHANGED << netVars, mgrVars, appVars, agent_up, link, kore_tx, ro_tx,
                    submitted, rx_read, io_failed, failed_write >>

\* The manager and an agent that sends MaxBurst frames at once; a read returns
\* all that has arrived.
NextBurst ==
    \/ MgrConnectOk
    \/ MgrConnectFail
    \/ MgrConnectSkip
    \/ MgrReadNone(LongSleep)
    \/ MgrReadBlock
    \/ MgrReadWait(LongSleep)
    \/ MgrReadData(Len(kore_rx))
    \/ MgrProcess
    \/ MgrPrepare
    \/ MgrSendSkip
    \/ MgrPingSkip
    \/ MgrPingOk
    \/ MgrSleep(LongSleep)
    \/ AgentStart
    \/ \E fs \in [ 1 .. MaxBurst -> AgentFrames ] : AgentBurst(fs)

SpecBurst == Init /\ [][NextBurst]_vars

\* ------------------------------------------------------------- both hooks
\* The application sends and receives, the manager runs, the agent starts,
\* sends keep-alives and frames of an unknown tag and stays: no I/O call on the
\* control socket fails.
NextHooks ==
    \/ MgrConnectOk
    \/ MgrConnectFail
    \/ MgrConnectSkip
    \/ MgrReadNone(LongSleep)
    \/ MgrReadBlock
    \/ MgrReadWait(LongSleep)
    \/ MgrReadData(Len(kore_rx))
    \/ MgrProcess
    \/ MgrPrepare
    \/ MgrSendSkip
    \/ MgrSendOk
    \/ MgrPingSkip
    \/ MgrPingOk
    \/ MgrSleep(LongSleep)
    \/ AppSend
    \/ AppRecv
    \/ AgentStart
    \/ \E f \in { KeepAlive, UnknownFrame } : AgentSend(f)

SpecHooks == Init /\ [][NextHooks]_vars

\* ------------------------------------------------------------- scheduling
\* The manager thread.
Manager == MgrStep(LongSleep) \/ MgrReadData(Len(kore_rx))

\* Spec with the scheduling the threads get: the manager thread keeps running
\* (it takes a step when one stays possible), and an application thread that
\* finds the mutex free again and again gets it.  Nothing is assumed of the
\* agent.
SpecFair == Spec /\ WF_vars(Manager) /\ SF_vars(AppSend)

\* ------------------------------------------------------------ large buffers
\* Buffers of the application around the largest length a header can hold.
BigSendData == { [ i \in 1 .. n |-> 0 ] : n \in { 2, U16_MAX, U16_MAX + 1 } }

\* The application sends large buffers while the manager connects and then
\* waits in its read for an agent that sends nothing.
NextBig ==
    \/ MgrConnectOk
    \/ MgrConnectFail
    \/ MgrReadNone(LongSleep)
    \/ MgrReadBlock
    \/ MgrReadWait(LongSleep)
    \/ \E data \in BigSendData, r \in { 0, SOCKET_ERROR } :
           HookedSendCall(data, r)
    \/ HookedSendQueue
    \/ \E r \in { Len(app_arg), SOCKET_ERROR } : HookedSendDirect(r)
    \/ HookedReturn
    \/ AgentStart

SpecBig == Init /\ [][NextBig]_vars

\* ---------------------------------------------------------------- the claims
\* C1: what hooked_send queued while connected is, in order and exactly once,
\* the payloads of the tag-'S' frames written to the control socket followed
\* by those still in xkore_send_buf: no queued frame leaves the queue
\* unwritten.
C1_EverySendReachesAgent ==
    PayloadsOf(StreamFrames(kore_tx) \o Frames(xkore_send_buf), TagS) = submitted

\* C2: the copy of xkore_send_buf and its clearing are one step for the hooks:
\* nothing is appended between them, and a successful write leaves in the
\* queue exactly what was appended after the copy.
C2_DrainIsAtomic ==
    /\ [](pc = "send" => xkore_send_buf = data_to_send)
    /\ [][ (pc = "send" /\ pc' = "ping" /\ data_to_send # << >> /\ link' = "up")
             => xkore_send_buf' = Drop(xkore_send_buf, Len(data_to_send)) ]_vars

\* C3: after a failed read, write or ping on the control socket the next tick
\* starts with kore_alive false and kore_client None; kore_alive turns true
\* only in a successful connect.
C3_FailureDisconnects ==
    /\ []((pc = "connect" /\ io_failed) => (~kore_alive /\ kore_client = "None"))
    /\ [][ (~kore_alive /\ kore_alive') => (pc = "connect" /\ agent_up) ]_vars

\* C4: while the bridge is disconnected (never connected, or an I/O call on
\* the control socket has failed and the tick it failed in is over) the bytes
\* of a hooked_send that succeeds go to the real server, whole and unchanged,
\* and are not queued.
C4_DisconnectedSendsDirect ==
    [][ ( /\ app_pc = "send_lock" /\ app_pc' = "send_ret"
          /\ (~kore_alive \/ (io_failed /\ pc = "connect"))
          /\ hook_ret' # SOCKET_ERROR )
        => (ro_tx' = ro_tx \o app_arg /\ xkore_send_buf' = xkore_send_buf) ]_vars

\* C5: the bytes of a failed write_all stay at the front of xkore_send_buf,
\* ahead of whatever is queued later, and the next write starts with them.
C5_FailedWriteKept ==
    /\ IsPrefix(failed_write, xkore_send_buf)
    /\ (pc = "send" => IsPrefix(failed_write, data_to_send))

\* C5 witness: a write has failed and newer data is queued behind its bytes.
C5_Witness ==
    /\ failed_write # << >>
    /\ Len(xkore_send_buf) > Len(failed_write)
    /\ pc = "send" /\ link = "up"

\* C6: a connect attempted while disconnected, other than the first, comes at
\* least RECONNECT_INTERVAL after the attempt before it.
C6_ReconnectSpacing ==
    [][ ( /\ pc = "connect" /\ pc' = "read" /\ ~kore_alive
          /\ last_connect_attempt > 0 )
        => last_connect_attempt >= RECONNECT_INTERVAL ]_vars

\* C7: a keep-alive is written between PING_INTERVAL and PING_INTERVAL +
\* SLEEP_TIME after the keep-alive timer was reset, and the timer is reset by
\* every ping written and by every successful connect.
C7_KeepAliveSpacing ==
    [][ /\ (pc = "ping" /\ kore_tx' # kore_tx)
             => ( /\ last_ping >= PING_INTERVAL
                  /\ last_ping <= PING_INTERVAL + SLEEP_TIME
                  /\ last_ping' = 0 )
        /\ (pc = "connect" /\ pc' = "read" /\ ConnectDue /\ agent_up)
             => last_ping' = 0 ]_vars

\* C8: once the manager has read, in whatever pieces, and processed all the
\* bytes the agent has sent, send_buf is the payloads of the agent's tag-'R'
\* frames, in order, and nothing else.
C8_InboundIsRPayloads ==
    (rx_read = Wire(agent_frames) /\ pc # "process")
        => send_buf = Flatten(PayloadsOf(agent_frames, TagR))

\* C9: a hooked_recv whose real receive succeeded and that finds bytes in
\* send_buf hands the application bytes from the front of send_buf and removes
\* them from it.
C9_InboundDelivered ==
    [][ (app_pc = "recv_lock" /\ app_pc' = "recv_ret" /\ send_buf # << >>)
        => \E n \in 1 .. Len(send_buf) :
               /\ send_buf' = Drop(send_buf, n)
               /\ app_buffer' = Take(send_buf, n) ]_vars

\* C10: a tag-'S' frame read from the agent while connected, the application
\* having a connection to the real server, has its payload written to the
\* real server, whole and with nothing added.
C10_AgentSendForwarded ==
    [][ ( /\ pc = "process" /\ pc' = "prepare" /\ read_result > 0
          /\ kore_alive
          /\ app_calls > 0
          /\ Len(Frames(buf)) = 1 /\ buf[1] = TagS )
        => ro_tx' = ro_tx \o Frames(buf)[1][2] ]_vars

\* C11: once the manager has read and processed all the bytes the agent has
\* sent, what it has routed is what process_packet routes when the same bytes
\* come in one read, however many reads they came in: the bytes of a frame
\* that is not complete yet are kept and are routed when it completes.
C11_SplitReadsRouteTheSame ==
    (rx_read = Wire(agent_frames) /\ rx_read # << >> /\ pc # "process")
        => /\ send_buf = ProcessSendBuf(rx_read, << >>)
           /\ ro_tx = ProcessRoTx(rx_read, ro_server, << >>)

\* C12: a read that returns several complete frames routes each by its own
\* tag and length: send_buf gets the payloads of the tag-'R' frames among them,
\* in order, and no byte of any other frame or of any header.
C12_EachFrameRouted ==
    [][ ( /\ pc = "process" /\ pc' = "prepare" /\ read_result > 0
          /\ Len(Frames(buf)) > 1 /\ Wire(Frames(buf)) = buf )
        => send_buf' = send_buf \o Flatten(PayloadsOf(Frames(buf), TagR)) ]_vars

\* C13: what send_data_to_kore appends for a captured buffer is a 3-byte header,
\* tag 'R' or 'S' and a little-endian length equal to the number of bytes of
\* the buffer, followed by the buffer, whatever the buffer's length.
C13_HeaderLengthExact ==
    [][ (app_pc = "send_lock" /\ app_pc' = "send_ret" /\ kore_alive)
        => LET new_buf == Drop(xkore_send_buf', Len(xkore_send_buf))
           IN  /\ Len(new_buf) = 3 + Len(app_arg)
               /\ new_buf[1] \in { TagR, TagS }
               /\ new_buf[2] + 256 * new_buf[3] = Len(app_arg)
               /\ Drop(new_buf, 3) = app_arg ]_vars

\* C14: in every state, kore_alive true implies that kore_client holds a
\* stream.
C14_AliveHasClient == kore_alive => kore_client = "Some"

\* C14 witness: the flag is set and the stream is held, even after the agent
\* has closed the connection and an I/O call on it has failed.
C14_Witness ==
    /\ kore_alive /\ kore_client = "Some"
    /\ link = "closed" /\ io_failed

\* C15: xkore_send_buf grows only in a step taken with kore_alive true, and a
\* hooked_send or hooked_recv that runs with kore_alive false leaves it as it
\* was.
C15_QueueGrowsOnlyConnected ==
    [][ /\ (Len(xkore_send_buf') > Len(xkore_send_buf)) => kore_alive
        /\ (app_pc' # app_pc /\ ~kore_alive)
               => xkore_send_buf' = xkore_send_buf ]_vars

\* C15 witness: a hooked_recv whose real receive returned data has gone through
\* send_data_to_kore with kore_alive false, and nothing is queued.
C15_Witness ==
    /\ app_pc = "recv_ret" /\ hook_ret > 0
    /\ ~kore_alive
    /\ xkore_send_buf = << >>

C17_KeepAliveAndUnknownIgnored ==
    [][ ( /\ pc = "process" /\ pc' = "prepare" /\ read_result > 0
          /\ Len(Frames(buf)) = 1 /\ Wire(Frames(buf)) = buf
          /\ buf[1] \notin { TagR, TagS } )
        => UNCHANGED << send_buf, xkore_send_buf, kore_alive, kore_client,
                        ro_server, ro_tx >> ]_vars

\* C17 witness: the agent's frame of unknown tag, payload included, has been
\* read and processed, and send_buf is empty.
C17_Witness ==
    /\ pc = "prepare" /\ kore_alive
    /\ agent_frames = << UnknownFrame >>
    /\ rx_read = Wire(agent_frames)
    /\ send_buf = << >> /\ ro_tx = << >>

\* C18: a hook that waits for the NETWORK_STATE mutex eventually gets it and
\* returns, whatever the agent does.
C18_HookGetsLock ==
    (app_pc \in { "send_lock", "recv_lock" })
        ~> (app_pc \in { "send_ret", "recv_ret" })

\* C19: the connect block of a tick that starts connected, the connection up
\* and no I/O call on it failed, makes no connect attempt: the attempt timer,
\* the stream in kore_client and the bytes in flight on it stay as they are.
C19_NoConnectWhileConnected ==
    [][ ( /\ pc = "connect" /\ pc' = "read"
          /\ kore_alive /\ link = "up" /\ ~io_failed )
        => UNCHANGED << kore_client, last_connect_attempt, link, kore_rx,
                        kore_tx >> ]_vars

\* C20: if a write_all has failed, its bytes kept in xkore_send_buf, and from
\* some time on the agent's endpoint accepts connections and stays, then the
\* kept bytes are eventually written to a control connection.
C20_KeptBytesEventuallyWritten ==
    []( (failed_write # << >> /\ []agent_up) => <>(failed_write = << >>) )

====
